---- MODULE Spec2Model ----
(***************************************************************************)
(* Model of the real-time transcription client of gijiroku-maker           *)
(* (frontend TranscriptionApp): the module-level WebSocket singleton, its  *)
(* open/message/error/close handlers, the token effect, the logout button, *)
(* the recording start/stop path with the balance gate, the profile        *)
(* (balance) refresh and the summary request.  One mounted view instance   *)
(* is modelled.                                                            *)
(***************************************************************************)
EXTENDS Integers, Sequences, FiniteSets, TLC

(* ------------------------------ bounds --------------------------------- *)
MaxHandles == 2
MaxFrames == 1
MaxText == 2
MaxBalance == 1
MaxOverlap == 1
\* samples per chunk of the worklet (1024 in the code)
bufferSize == 2
\* longest input block handed to process()
MaxBlock == 3
\* samples the microphone delivers in all
MaxSamples == 5
\* samples are the multiples of 1/Resolution
Resolution == 1

(* --------------------------- value domains ----------------------------- *)
None == "none"
Tokens == {"T1", "T2"}
Texts == {"a"}

CONNECTING == 0
OPEN == 1
CLOSING == 2
CLOSED == 3

NormalClosure == 1000
GoingAway == 1001
NoStatusRcvd == 1005
AbnormalClosure == 1006
InternalError == 1011
AuthFailureCode == 4001

\* close codes a backend close frame can carry
ServerCodes == {NormalClosure, GoingAway, InternalError, AuthFailureCode}

AuthFailureMessage == "auth-failed"

\* inbound text frames: parsed JSON values, or text that does not parse
Inbound ==
    [type : {"transcription", "immediate", "minutes"}, text : Texts]
    \cup [type : {"error"}, message : {AuthFailureMessage, "other"}]
    \cup {[type |-> "unknown"], [malformed |-> TRUE]}

VARIABLES
    token,               \* useAuth().token seen by the view
    globalWebSocket,     \* 0 = null, otherwise index into sockets
    isExplicitlyClosing,
    sockets,             \* every WebSocket object created so far
    task,                \* handle whose close task has fired error, not yet close
    connectionStatus,
    balance,
    isRecording,
    capturing,           \* microphone stream held and audio graph connected
    startPc,             \* startRecording suspended at getUserMedia
    overlapped,          \* further startRecording calls suspended there
    orphaned,            \* a live stream and graph no ref points at any more
    minutesPc,           \* generateMinutes suspended at fetch or fetchProfile
    allTranscript,
    immediate,
    minutes,
    toast,               \* notification raised by the last handler
    buffer,              \* RecorderProcessor.buffer
    bufferIndex,         \* RecorderProcessor.bufferIndex
    stream,              \* every sample handed to process() so far
    posted,              \* every chunk process() has posted, oldest first
    delivered,           \* chunks the main thread has taken from the port
    encoded,             \* what convertFloat32ToInt16 returned last
    detached             \* handles whose handlers belong to an unmounted view

vars == <<token, globalWebSocket, isExplicitlyClosing, sockets, task,
          connectionStatus, balance, isRecording, capturing, startPc,
          overlapped, orphaned, minutesPc, allTranscript, immediate, minutes,
          toast, buffer, bufferIndex, stream, posted, delivered, encoded,
          detached>>

connVars == <<globalWebSocket, isExplicitlyClosing, sockets, connectionStatus>>
audioVars == <<buffer, bufferIndex, stream, posted, delivered, encoded>>
viewVars == <<balance, isRecording, capturing, startPc, overlapped, orphaned,
              minutesPc, audioVars, detached>>
textVars == <<allTranscript, immediate, minutes>>

Handles == 1..Len(sockets)

(* ------------------------- the WebSocket object ------------------------ *)
\* new WebSocket(wsUrl, "cognito-auth") created by a connectWebSocket closure
\* that captured the view token tok
NewWebSocket(tok) ==
    [readyState |-> CONNECTING,
     token      |-> tok,
     awaiting   |-> FALSE,
     sent       |-> <<>>,
     timer      |-> "none",
     pendCode   |-> 0]

\* WebSocket.close(code): only a connecting or open socket starts closing
Close(socks, h, code) ==
    IF socks[h].readyState = OPEN
    THEN [socks EXCEPT ![h].readyState = CLOSING, ![h].pendCode = code]
    ELSE IF socks[h].readyState = CONNECTING
    THEN [socks EXCEPT ![h].readyState = CLOSING, ![h].pendCode = AbnormalClosure]
    ELSE socks

\* WebSocket.send(data) on an OPEN socket; closing/closed sockets discard
Send(socks, h, data) ==
    IF socks[h].readyState = OPEN
    THEN [socks EXCEPT ![h].sent = Append(@, data)]
    ELSE socks

\* useState<number | null>(null): <<>> is null, <<n>> a loaded balance of n seconds
NullBalance == <<>>

AuthMessage(t) == [type |-> "auth", token |-> t]
AudioFrame == [type |-> "audio"]

(* ----------------------------- Init ------------------------------------ *)
Init ==
    /\ token = None
    /\ globalWebSocket = 0
    /\ isExplicitlyClosing = FALSE
    /\ sockets = <<>>
    /\ task = 0
    /\ connectionStatus = "disconnected"
    /\ balance = NullBalance
    /\ isRecording = FALSE
    /\ capturing = FALSE
    /\ startPc = "idle"
    /\ overlapped = 0
    /\ orphaned = FALSE
    /\ minutesPc = "idle"
    /\ allTranscript = <<>>
    /\ immediate = ""
    /\ minutes = ""
    /\ toast = None
    /\ buffer = [i \in 1..bufferSize |-> 0]
    /\ bufferIndex = 0
    /\ stream = <<>>
    /\ posted = <<>>
    /\ delivered = 0
    /\ encoded = <<>>
    /\ detached = {}

(* --------------------------- connectWebSocket -------------------------- *)
\* variant of the early return that tests readyState === OPEN only
AlreadyConnecting_OpenOnly(socks) ==
    /\ globalWebSocket # 0
    /\ socks[globalWebSocket].readyState = OPEN

\* variant of the early return that tests only that a handle is held
AlreadyConnecting_AnyHandle(socks) == globalWebSocket # 0

\* the early return of connectWebSocket: a handle that is open or connecting
AlreadyConnecting(socks) ==
    /\ globalWebSocket # 0
    /\ socks[globalWebSocket].readyState \in {OPEN, CONNECTING}

\* connectWebSocket as created by a render whose token was tok; socks is the
\* socket table as the caller left it
connectWebSocket(tok, socks) ==
    IF AlreadyConnecting(socks) \/ tok = None
    THEN /\ sockets' = socks
         /\ UNCHANGED <<globalWebSocket, isExplicitlyClosing, connectionStatus>>
    ELSE /\ Len(socks) < MaxHandles
         /\ connectionStatus' = "connecting"
         /\ isExplicitlyClosing' = FALSE
         /\ sockets' = Append(socks, NewWebSocket(tok))
         /\ globalWebSocket' = Len(socks) + 1

(* ------------------------------ onopen --------------------------------- *)
\* transport opens: onopen runs up to its await of fetchAuthSession()
OnOpen(h) ==
    /\ task = 0
    /\ sockets[h].readyState = CONNECTING
    /\ sockets' = [sockets EXCEPT ![h].readyState = OPEN, ![h].awaiting = TRUE]
    /\ toast' = None
    /\ UNCHANGED <<token, globalWebSocket, isExplicitlyClosing, task,
                   connectionStatus, viewVars, textVars>>

\* variant of the auth send that reuses the token the connecting closure held
SendAuth_CapturedToken(socks, latestToken) ==
    IF globalWebSocket # 0 /\ latestToken # None
    THEN Send(socks, globalWebSocket, AuthMessage(socks[globalWebSocket].token))
    ELSE socks

\* globalWebSocket.send(auth) inside the try block: send() on a CONNECTING
\* socket throws InvalidStateError, which the catch swallows
SendAuth(socks, latestToken) ==
    IF globalWebSocket # 0 /\ latestToken # None
    THEN Send(socks, globalWebSocket, AuthMessage(latestToken))
    ELSE socks

\* what fetchAuthSession() can settle with: the identity provider's current
\* access token, a session without tokens, or a rejection
Rejected == "rejected"
FetchOutcomes == Tokens \cup {None, Rejected}

\* the continuation of onopen after fetchAuthSession() settled with outcome
OnOpenResume(h, outcome) ==
    /\ task = 0
    /\ sockets[h].awaiting
    /\ LET resumed == [sockets EXCEPT ![h].awaiting = FALSE]
           after == IF outcome = Rejected THEN resumed
                    ELSE SendAuth(resumed, outcome)
       IN sockets' = after
    /\ connectionStatus' = "connected"
    /\ toast' = None
    /\ UNCHANGED <<token, globalWebSocket, isExplicitlyClosing, task,
                   viewVars, textVars>>

(* ----------------------------- onmessage ------------------------------- *)
IsAuthFailure(data) ==
    /\ "type" \in DOMAIN data
    /\ data.type = "error"
    /\ data.message = AuthFailureMessage

\* variant of the type test in which a value without a known type counts as
\* an error message
HasType_UnknownIsError(data, ty) ==
    IF "type" \in DOMAIN data
          /\ data.type \in {"transcription", "immediate", "minutes", "error"}
    THEN data.type = ty
    ELSE ty = "error"

HasType(data, ty) == "type" \in DOMAIN data /\ data.type = ty

\* variant of the transcript update without the separating space
setAllTranscript_NoSeparator(prev, text) == prev \o <<text>>

\* setAllTranscript((prev) => `${prev} ${data.text}`): the transcript is kept
\* as the sequence of the pieces concatenated so far
setAllTranscript(prev, text) == prev \o <<" ", text>>

\* variant of the immediate update that appends to the text shown
setImmediate_Append(text) == immediate \o " " \o text

\* setImmediate(data.text)
setImmediate(text) == text

\* console.error in onmessage: the catch block, reached by text that does not
\* parse, and the authentication-failure branch; no other branch logs
LogsError(data) == "type" \notin DOMAIN data \/ IsAuthFailure(data)

OnMessage(h, data) ==
    /\ task = 0
    /\ sockets[h].readyState = OPEN
    /\ IF IsAuthFailure(data)
       THEN /\ toast' = "auth-failed"
            /\ UNCHANGED textVars
       ELSE IF HasType(data, "transcription")
       THEN /\ Len(allTranscript) < 2 * MaxText
            /\ allTranscript' = setAllTranscript(allTranscript, data.text)
            /\ toast' = None
            /\ UNCHANGED <<immediate, minutes>>
       ELSE IF HasType(data, "immediate")
       THEN /\ immediate' = setImmediate(data.text)
            /\ toast' = None
            /\ UNCHANGED <<allTranscript, minutes>>
       ELSE IF HasType(data, "minutes")
       THEN /\ minutes' = data.text
            /\ toast' = None
            /\ UNCHANGED <<allTranscript, immediate>>
       ELSE IF HasType(data, "error")
       THEN /\ toast' = "error"
            /\ UNCHANGED textVars
       ELSE /\ toast' = None
            /\ UNCHANGED textVars
    /\ UNCHANGED <<token, connVars, task, viewVars>>

(* ------------------------- onerror / onclose --------------------------- *)
\* onerror: if (!isExplicitlyClosing) setConnectionStatus("error")
StatusAfterError ==
    IF isExplicitlyClosing THEN connectionStatus ELSE "error"

\* variant of the reconnect decision without the test for code 1001
SchedulesReconnect_NoGoingAway(explicit, code) ==
    /\ ~explicit
    /\ code # AuthFailureCode
    /\ code # NormalClosure

\* variant of the reconnect decision without the early return for code 4001
SchedulesReconnect_NoAuthCode(explicit, code) ==
    /\ ~explicit
    /\ code # NormalClosure
    /\ code # GoingAway

\* onclose: does the handler arm setTimeout(connectWebSocket, 3000)?
SchedulesReconnect(explicit, code) ==
    /\ ~explicit
    /\ code # AuthFailureCode
    /\ code # NormalClosure
    /\ code # GoingAway

\* onclose(event) of handle h delivered to socket table socks
onclose(h, code, socks) ==
    /\ sockets' = IF SchedulesReconnect(isExplicitlyClosing, code)
                  THEN [socks EXCEPT ![h].timer = "armed"]
                  ELSE socks
    /\ connectionStatus' =
          IF isExplicitlyClosing THEN connectionStatus ELSE "disconnected"
    /\ toast' = IF ~isExplicitlyClosing /\ code = AuthFailureCode
                THEN "auth-closed" ELSE None

\* the backend closes the connection with a close frame carrying code:
\* readyState CLOSED and the close event, in one task
OnCloseByServer(h, code) ==
    /\ task = 0
    /\ sockets[h].readyState = OPEN
    /\ onclose(h, code, [sockets EXCEPT ![h].readyState = CLOSED])
    /\ UNCHANGED <<token, globalWebSocket, isExplicitlyClosing, task,
                   viewVars, textVars>>

\* the closing handshake the client started with close() completes:
\* readyState CLOSED, close event with the code of the handshake
OnCloseClean(h) ==
    /\ task = 0
    /\ sockets[h].readyState = CLOSING
    /\ onclose(h, sockets[h].pendCode,
               [sockets EXCEPT ![h].readyState = CLOSED, ![h].pendCode = 0])
    /\ UNCHANGED <<token, globalWebSocket, isExplicitlyClosing, task,
                   viewVars, textVars>>

\* the connection fails: readyState CLOSED, error event; the close event of
\* the same task follows
OnError(h) ==
    /\ task = 0
    /\ sockets[h].readyState \in {CONNECTING, OPEN, CLOSING}
    /\ sockets' = [sockets EXCEPT ![h].readyState = CLOSED, ![h].pendCode = 0]
    /\ connectionStatus' = StatusAfterError
    /\ task' = h
    /\ toast' = None
    /\ UNCHANGED <<token, globalWebSocket, isExplicitlyClosing,
                   viewVars, textVars>>

OnCloseFailed(h) ==
    /\ task = h
    /\ onclose(h, AbnormalClosure, sockets)
    /\ task' = 0
    /\ UNCHANGED <<token, globalWebSocket, isExplicitlyClosing,
                   viewVars, textVars>>

\* setTimeout(connectWebSocket, 3000) of handle h fires: the closure that
\* created h runs again, with the token it captured
ReconnectTimer(h) ==
    /\ task = 0
    /\ sockets[h].timer = "armed"
    /\ connectWebSocket(sockets[h].token, [sockets EXCEPT ![h].timer = "fired"])
    /\ toast' = None
    /\ UNCHANGED <<token, task, viewVars, textVars>>

(* --------------------------- the token effect -------------------------- *)
\* variant of the token effect that closes without setting the flag
TokenEffect_NoFlag(tok) ==
    IF tok # None
    THEN connectWebSocket(tok, sockets)
    ELSE /\ connectionStatus' = "disconnected"
         /\ IF globalWebSocket # 0
            THEN /\ UNCHANGED isExplicitlyClosing
                 /\ sockets' = Close(sockets, globalWebSocket, NormalClosure)
                 /\ globalWebSocket' = 0
            ELSE UNCHANGED <<isExplicitlyClosing, sockets, globalWebSocket>>

\* useEffect(..., [token, connectWebSocket]) run for a view token tok
TokenEffect(tok) ==
    IF tok # None
    THEN connectWebSocket(tok, sockets)
    ELSE /\ connectionStatus' = "disconnected"
         /\ IF globalWebSocket # 0
            THEN /\ isExplicitlyClosing' = TRUE
                 /\ sockets' = Close(sockets, globalWebSocket, NormalClosure)
                 /\ globalWebSocket' = 0
            ELSE UNCHANGED <<isExplicitlyClosing, sockets, globalWebSocket>>

\* AuthContext sets a (new) access token: login or refresh; the effect reruns
SetToken(t) ==
    /\ task = 0
    /\ t # token
    /\ token' = t
    /\ TokenEffect(t)
    /\ toast' = None
    /\ UNCHANGED <<task, viewVars, textVars>>

\* clearAuthData(): setToken(null), then the effect with no token
ClearAuthData ==
    /\ task = 0
    /\ token # None
    /\ token' = None
    /\ TokenEffect(None)
    /\ toast' = None
    /\ UNCHANGED <<task, viewVars, textVars>>

(* ----------------------------- recording ------------------------------- *)
\* variant of the balance check with balance < 0
InsufficientBalance_Negative(b) == b # NullBalance /\ b[1] < 0

\* variant of the balance check without the null test (null <= 0 holds)
InsufficientBalance_NullBlocks(b) == b = NullBalance \/ b[1] <= 0

\* the balance check of startRecording
InsufficientBalance(b) == b # NullBalance /\ b[1] <= 0

\* the start button is rendered while not recording and is disabled unless
\* connectionStatus is "connected"
StartButtonEnabled == ~isRecording /\ connectionStatus = "connected"

\* a click on the start button with no call in flight: startRecording up to
\* its await of getUserMedia
startRecording ==
    /\ task = 0
    /\ StartButtonEnabled
    /\ startPc = "idle"
    /\ IF connectionStatus # "connected"
       THEN /\ toast' = "not-connected"
            /\ UNCHANGED startPc
       ELSE IF InsufficientBalance(balance)
       THEN /\ toast' = "insufficient-balance"
            /\ UNCHANGED startPc
       ELSE /\ startPc' = "getUserMedia"
            /\ toast' = None
    /\ UNCHANGED <<token, connVars, task, audioVars, detached,
                   balance, isRecording,
                   capturing, overlapped, orphaned, minutesPc,
                   textVars>>

\* a further click on the start button while a call is suspended at
\* getUserMedia: isRecording is still false, so the button is still there
startRecordingAgain ==
    /\ task = 0
    /\ StartButtonEnabled
    /\ startPc = "getUserMedia"
    /\ IF connectionStatus # "connected"
       THEN /\ toast' = "not-connected"
            /\ UNCHANGED overlapped
       ELSE IF InsufficientBalance(balance)
       THEN /\ toast' = "insufficient-balance"
            /\ UNCHANGED overlapped
       ELSE /\ overlapped < MaxOverlap
            /\ overlapped' = overlapped + 1
            /\ toast' = None
    /\ UNCHANGED <<token, connVars, task, audioVars, detached,
                   balance, isRecording,
                   capturing, startPc, orphaned, minutesPc,
                   textVars>>

\* getUserMedia resolved: streamRef, audioContextRef, sourceRef and
\* processorRef are overwritten, the audio graph is built,
\* setIsRecording(true); a stream and graph the refs pointed at stay live
MicrophoneGranted ==
    /\ task = 0
    /\ startPc = "getUserMedia"
    /\ startPc' = "idle"
    /\ orphaned' = (orphaned \/ capturing)
    /\ capturing' = TRUE
    /\ isRecording' = TRUE
    /\ toast' = None
    /\ UNCHANGED <<token, connVars, task, audioVars, detached,
                   balance, overlapped, minutesPc,
                   textVars>>

\* getUserMedia of a further call resolved
MicrophoneGrantedAgain ==
    /\ task = 0
    /\ overlapped > 0
    /\ overlapped' = overlapped - 1
    /\ orphaned' = (orphaned \/ capturing)
    /\ capturing' = TRUE
    /\ isRecording' = TRUE
    /\ toast' = None
    /\ UNCHANGED <<token, connVars, task, audioVars, detached,
                   balance, startPc, minutesPc,
                   textVars>>

\* getUserMedia rejected: the catch block
MicrophoneDenied ==
    /\ task = 0
    /\ startPc = "getUserMedia"
    /\ startPc' = "idle"
    /\ toast' = "microphone-error"
    /\ UNCHANGED <<token, connVars, task, audioVars, detached,
                   balance, isRecording,
                   capturing, overlapped, orphaned, minutesPc,
                   textVars>>

\* getUserMedia of a further call rejected
MicrophoneDeniedAgain ==
    /\ task = 0
    /\ overlapped > 0
    /\ overlapped' = overlapped - 1
    /\ toast' = "microphone-error"
    /\ UNCHANGED <<token, connVars, task, audioVars, detached,
                   balance, isRecording,
                   capturing, startPc, orphaned, minutesPc,
                   textVars>>

\* the stop button is rendered while recording
stopRecording ==
    /\ task = 0
    /\ isRecording
    /\ capturing' = FALSE
    /\ isRecording' = FALSE
    /\ toast' = None
    /\ UNCHANGED <<token, connVars, task, audioVars, detached,
                   balance, startPc, overlapped,
                   orphaned, minutesPc,
                   textVars>>

RECURSIVE AudioCount(_)
AudioCount(log) ==
    IF log = <<>> THEN 0
    ELSE (IF Head(log) = AudioFrame THEN 1 ELSE 0) + AudioCount(Tail(log))

RECURSIVE FramesSentUpTo(_)
FramesSentUpTo(n) ==
    IF n = 0 THEN 0 ELSE AudioCount(sockets[n].sent) + FramesSentUpTo(n - 1)

\* audio frames transmitted so far, over all handles
FramesSent == FramesSentUpTo(Len(sockets))

\* processor.port.onmessage: one full chunk from the worklet
CanSendFrame ==
    /\ globalWebSocket # 0
    /\ sockets[globalWebSocket].readyState = OPEN

OnAudioChunk ==
    /\ task = 0
    /\ capturing \/ orphaned
    /\ IF CanSendFrame
       THEN /\ FramesSent < MaxFrames
            /\ sockets' = Send(sockets, globalWebSocket, AudioFrame)
       ELSE UNCHANGED sockets
    /\ toast' = None
    /\ UNCHANGED <<token, globalWebSocket, isExplicitlyClosing, task,
                   connectionStatus, viewVars, textVars>>

(* ------------------------- RecorderProcessor --------------------------- *)
\* a Float32 sample s is carried as the integer s * Resolution; the
\* microphone delivers silence, full scale in both directions, and one step
\* beyond full scale in both directions
One == Resolution
Samples == {-(One + 1), -One, 0, One, One + 1}

\* variant of the test that posts one sample early
Full_OffByOne(index) == index = bufferSize - 1

\* this.bufferIndex === this.bufferSize
Full(index) == index = bufferSize

\* one turn of the loop of process(): store the sample at bufferIndex and
\* increment it; when the buffer is full, post a copy and start over
Store(p, sample) ==
    LET stored == [p.buffer EXCEPT ![p.bufferIndex + 1] = sample]
        index == p.bufferIndex + 1
    IN  IF Full(index)
        THEN [buffer |-> stored, bufferIndex |-> 0,
              posted |-> Append(p.posted, stored)]
        ELSE [buffer |-> stored, bufferIndex |-> index, posted |-> p.posted]

RECURSIVE Loop(_, _, _)
Loop(p, channelData, i) ==
    IF i > Len(channelData)
    THEN p
    ELSE Loop(Store(p, channelData[i]), channelData, i + 1)

\* process(inputs): the audio thread hands over the next block of channel 0
process(channelData) ==
    LET p == Loop([buffer |-> buffer, bufferIndex |-> bufferIndex,
                   posted |-> posted], channelData, 1)
    IN  /\ Len(stream) + Len(channelData) <= MaxSamples
        /\ buffer' = p.buffer
        /\ bufferIndex' = p.bufferIndex
        /\ posted' = p.posted
        /\ stream' = stream \o channelData
        /\ UNCHANGED <<token, connVars, task, balance, isRecording, capturing,
                       startPc, overlapped, orphaned, minutesPc, textVars,
                       toast, detached, delivered, encoded>>

(* ----------------------- convertFloat32ToInt16 ------------------------- *)
\* Math.min(1, x)
MathMin1(x) == IF x > One THEN One ELSE x

\* the integer part of n / d, rounded towards zero
Truncate(n, d) == IF n >= 0 THEN n \div d ELSE -((-n) \div d)

\* storing a number into an Int16Array element: the integer part, modulo
\* 2^16, read as a signed 16-bit value
ToInt16(n, d) == ((Truncate(n, d) + 32768) % 65536) - 32768

\* buf[i] = Math.min(1, buffer[i]) * 0x7fff
convertFloat32ToInt16(chunk) ==
    [i \in 1..Len(chunk) |-> ToInt16(MathMin1(chunk[i]) * 32767, Resolution)]

\* the main thread takes the next chunk from the port and converts it
EncodeChunk ==
    /\ delivered < Len(posted)
    /\ delivered' = delivered + 1
    /\ encoded' = convertFloat32ToInt16(posted[delivered + 1])
    /\ UNCHANGED <<token, connVars, task, balance, isRecording, capturing,
                   startPc, overlapped, orphaned, minutesPc, textVars,
                   toast, detached, buffer, bufferIndex, stream, posted>>

(* --------------------------- logout button ----------------------------- *)
LogoutClick ==
    /\ task = 0
    /\ token # None
    /\ isExplicitlyClosing' = TRUE
    /\ sockets' = IF globalWebSocket # 0
                  THEN Close(sockets, globalWebSocket, NoStatusRcvd)
                  ELSE sockets
    /\ globalWebSocket' = 0
    /\ IF isRecording
       THEN capturing' = FALSE /\ isRecording' = FALSE
       ELSE UNCHANGED <<capturing, isRecording>>
    /\ toast' = None
    /\ UNCHANGED <<token, task, audioVars, detached, connectionStatus, balance, startPc,
                   overlapped, orphaned, minutesPc,
                   textVars>>

(* ------------------------------ balance -------------------------------- *)
\* fetchProfile() succeeded with seconds_balance b; the profile effect copies it
ProfileLoaded(b) ==
    /\ task = 0
    /\ token # None
    /\ balance' = <<b>>
    /\ toast' = None
    /\ UNCHANGED <<token, connVars, task, audioVars, detached,
                   isRecording, capturing,
                   startPc, overlapped, orphaned, minutesPc,
                   textVars>>

(* -------------------- the view under ProtectedRoute -------------------- *)
\* page.tsx renders the view inside ProtectedRoute, which renders it only
\* while a token is set. A view instance starts from its useState initial
\* values; the module-level socket and flag and the handlers installed by
\* earlier instances stay, and the state setters those handlers hold belong
\* to the instance that is gone.

\* a view instance mounts holding token t: after login (no view before), or
\* after the earlier instance was unmounted with the token still set. Its
\* token effect runs connectWebSocket.
Mount(t) ==
    /\ task = 0
    /\ startPc = "idle"
    /\ minutesPc = "idle"
    /\ t # None
    /\ token \in {None, t}
    /\ token' = t
    /\ detached' = Handles
    /\ IF AlreadyConnecting(sockets)
       THEN /\ connectionStatus' = "disconnected"
            /\ UNCHANGED <<globalWebSocket, isExplicitlyClosing, sockets>>
       ELSE /\ Len(sockets) < MaxHandles
            /\ connectionStatus' = "connecting"
            /\ isExplicitlyClosing' = FALSE
            /\ sockets' = Append(sockets, NewWebSocket(t))
            /\ globalWebSocket' = Len(sockets) + 1
    /\ balance' = NullBalance
    /\ isRecording' = FALSE
    /\ capturing' = FALSE
    /\ orphaned' = (orphaned \/ capturing)
    /\ allTranscript' = <<>>
    /\ immediate' = ""
    /\ minutes' = ""
    /\ toast' = None
    /\ UNCHANGED <<task, startPc, overlapped, minutesPc, audioVars>>

\* logout() has cleared the token: ProtectedRoute stops rendering the view,
\* whose effects have no cleanup
SignedOut ==
    /\ task = 0
    /\ token # None
    /\ token' = None
    /\ detached' = Handles
    /\ toast' = None
    /\ UNCHANGED <<connVars, task, balance, isRecording, capturing, startPc,
                   overlapped, orphaned, minutesPc, audioVars, textVars>>

\* the handlers of a handle whose view is gone: the global socket, the flag,
\* the timers and the toasts as before, the state setters without effect
DetachedOnOpenResume(h, outcome) ==
    /\ task = 0
    /\ h \in detached
    /\ sockets[h].awaiting
    /\ LET resumed == [sockets EXCEPT ![h].awaiting = FALSE]
       IN sockets' = IF outcome = Rejected THEN resumed
                     ELSE SendAuth(resumed, outcome)
    /\ toast' = None
    /\ UNCHANGED <<token, globalWebSocket, isExplicitlyClosing, task,
                   connectionStatus, viewVars, textVars>>

DetachedOnclose(h, code, socks) ==
    /\ sockets' = IF SchedulesReconnect(isExplicitlyClosing, code)
                  THEN [socks EXCEPT ![h].timer = "armed"]
                  ELSE socks
    /\ toast' = IF ~isExplicitlyClosing /\ code = AuthFailureCode
                THEN "auth-closed" ELSE None
    /\ UNCHANGED connectionStatus

DetachedOnCloseByServer(h, code) ==
    /\ task = 0
    /\ h \in detached
    /\ sockets[h].readyState = OPEN
    /\ DetachedOnclose(h, code, [sockets EXCEPT ![h].readyState = CLOSED])
    /\ UNCHANGED <<token, globalWebSocket, isExplicitlyClosing, task,
                   viewVars, textVars>>

DetachedOnCloseClean(h) ==
    /\ task = 0
    /\ h \in detached
    /\ sockets[h].readyState = CLOSING
    /\ DetachedOnclose(h, sockets[h].pendCode,
               [sockets EXCEPT ![h].readyState = CLOSED, ![h].pendCode = 0])
    /\ UNCHANGED <<token, globalWebSocket, isExplicitlyClosing, task,
                   viewVars, textVars>>

DetachedOnError(h) ==
    /\ task = 0
    /\ h \in detached
    /\ sockets[h].readyState \in {CONNECTING, OPEN, CLOSING}
    /\ sockets' = [sockets EXCEPT ![h].readyState = CLOSED, ![h].pendCode = 0]
    /\ task' = h
    /\ toast' = None
    /\ UNCHANGED <<token, globalWebSocket, isExplicitlyClosing,
                   connectionStatus, viewVars, textVars>>

DetachedOnCloseFailed(h) ==
    /\ task = h
    /\ h \in detached
    /\ DetachedOnclose(h, AbnormalClosure, sockets)
    /\ task' = 0
    /\ UNCHANGED <<token, globalWebSocket, isExplicitlyClosing,
                   viewVars, textVars>>

\* the timer of a detached handle fires: connectWebSocket of the old
\* instance installs its own handlers on the socket it creates
DetachedReconnectTimer(h) ==
    /\ task = 0
    /\ h \in detached
    /\ sockets[h].timer = "armed"
    /\ LET socks == [sockets EXCEPT ![h].timer = "fired"]
       IN IF AlreadyConnecting(socks) \/ sockets[h].token = None
          THEN /\ sockets' = socks
               /\ UNCHANGED <<globalWebSocket, isExplicitlyClosing, detached>>
          ELSE /\ Len(socks) < MaxHandles
               /\ isExplicitlyClosing' = FALSE
               /\ sockets' = Append(socks, NewWebSocket(sockets[h].token))
               /\ globalWebSocket' = Len(socks) + 1
               /\ detached' = detached \cup {Len(socks) + 1}
    /\ toast' = None
    /\ UNCHANGED <<token, task, connectionStatus, balance, isRecording,
                   capturing, startPc, overlapped, orphaned, minutesPc,
                   audioVars, textVars>>

(* ------------------------------ purchase ------------------------------- *)
\* how the create-checkout-session request can end: a response with a
\* checkout url, a response without one, or a failed request
CheckoutOutcomes == {"url", "no-url", "failed"}

\* variant of the purchase flow that credits the bought time locally
handleBuyCredits_Credits(outcome) ==
    /\ task = 0
    /\ balance # NullBalance
    /\ token # None
    /\ balance' = IF outcome = "url" /\ balance[1] < MaxBalance
                  THEN <<balance[1] + 1>> ELSE balance
    /\ toast' = IF outcome = "url" THEN None
                ELSE IF outcome = "no-url" THEN "checkout-error"
                ELSE "network-error"
    /\ UNCHANGED <<token, connVars, task, audioVars, detached,
                   isRecording, capturing, startPc,
                   overlapped, orphaned, minutesPc, textVars>>

\* a click on the purchase button, rendered once the profile is loaded:
\* handleBuyCredits through to the end of its request; with a url the
\* browser is sent to the checkout page
handleBuyCredits(outcome) ==
    /\ task = 0
    /\ balance # NullBalance
    /\ token # None
    /\ toast' = IF outcome = "url" THEN None
                ELSE IF outcome = "no-url" THEN "checkout-error"
                ELSE "network-error"
    /\ UNCHANGED <<token, connVars, task, viewVars, textVars>>

(* ------------------------------ minutes -------------------------------- *)
\* summaries the generate_minutes endpoint can return
Summaries == {"m1", "m2"}

\* variant of the summary button without the disabled attribute
SummaryButtonEnabled_Always == TRUE

\* the summary button is disabled while allTranscript is empty
SummaryButtonEnabled == allTranscript # <<>>

\* a click on the summary button: generateMinutes up to its await of fetch
\* (one call in flight at a time)
generateMinutes ==
    /\ task = 0
    /\ SummaryButtonEnabled
    /\ minutesPc = "idle"
    /\ minutesPc' = IF token = None THEN "idle" ELSE "fetch"
    /\ toast' = None
    /\ UNCHANGED <<token, connVars, task, audioVars, detached,
                   balance, isRecording, capturing,
                   startPc, overlapped, orphaned, textVars>>

\* variant of the failure path that refreshes the balance all the same
GenerateMinutesFailed_Refreshes ==
    /\ task = 0
    /\ minutesPc = "fetch"
    /\ minutesPc' = "fetchProfile"
    /\ toast' = "minutes-error"
    /\ UNCHANGED <<token, connVars, task, audioVars, detached,
                   balance, isRecording, capturing,
                   startPc, overlapped, orphaned, textVars>>

\* fetch rejected, or the response is not ok, or its body does not parse:
\* the catch block
GenerateMinutesFailed ==
    /\ task = 0
    /\ minutesPc = "fetch"
    /\ minutesPc' = "idle"
    /\ toast' = "minutes-error"
    /\ UNCHANGED <<token, connVars, task, audioVars, detached,
                   balance, isRecording, capturing,
                   startPc, overlapped, orphaned, textVars>>

\* variant of the success path that reports success without a profile fetch
GenerateMinutesOk_NoRefresh(text) ==
    /\ task = 0
    /\ minutesPc = "fetch"
    /\ minutes' = text
    /\ minutesPc' = "idle"
    /\ toast' = "minutes-success"
    /\ UNCHANGED <<token, connVars, task, audioVars, detached,
                   balance, isRecording, capturing,
                   startPc, overlapped, orphaned, allTranscript, immediate>>

\* the response is ok: setMinutes(data.minutes), then await fetchProfile()
GenerateMinutesOk(text) ==
    /\ task = 0
    /\ minutesPc = "fetch"
    /\ minutes' = text
    /\ minutesPc' = "fetchProfile"
    /\ toast' = None
    /\ UNCHANGED <<token, connVars, task, audioVars, detached,
                   balance, isRecording, capturing,
                   startPc, overlapped, orphaned, allTranscript, immediate>>

\* fetchProfile() of generateMinutes succeeded with seconds_balance b: the
\* profile effect copies it, then the success notification
RefreshDone(b) ==
    /\ task = 0
    /\ minutesPc = "fetchProfile"
    /\ balance' = <<b>>
    /\ minutesPc' = "idle"
    /\ toast' = "minutes-success"
    /\ UNCHANGED <<token, connVars, task, audioVars, detached,
                   isRecording, capturing,
                   startPc, overlapped, orphaned, textVars>>

\* fetchProfile() of generateMinutes failed: it catches its error and
\* resolves; the success notification follows all the same
RefreshFailed ==
    /\ task = 0
    /\ minutesPc = "fetchProfile"
    /\ minutesPc' = "idle"
    /\ toast' = "minutes-success"
    /\ UNCHANGED <<token, connVars, task, audioVars, detached,
                   balance, isRecording, capturing,
                   startPc, overlapped, orphaned, textVars>>

(* ----------------------------- behaviours ------------------------------ *)
\* inbound messages that carry no transcript text
ControlMessages == {m \in Inbound : "text" \notin DOMAIN m}

\* the access token a login hands to the view
LoginToken == "T1"

\* transcript messages
TranscriptMessages == {m \in Inbound : "text" \in DOMAIN m /\ m.type = "transcription"}

\* steps of the view and the identity provider around the session
Session ==
    \/ SetToken(LoginToken)
    \/ ClearAuthData
    \/ LogoutClick

\* steps of the transport and of the reconnection timers
Transport ==
    \/ \E h \in Handles : OnOpen(h)
    \/ \E h \in Handles, outcome \in FetchOutcomes : OnOpenResume(h, outcome)
    \/ \E h \in Handles, code \in ServerCodes : OnCloseByServer(h, code)
    \/ \E h \in Handles : OnCloseClean(h)
    \/ \E h \in Handles : OnError(h)
    \/ \E h \in Handles : OnCloseFailed(h)
    \/ \E h \in Handles : ReconnectTimer(h)

\* steps of the capture pipeline
Capture ==
    \/ startRecording
    \/ MicrophoneGranted
    \/ MicrophoneDenied
    \/ stopRecording
    \/ OnAudioChunk

\* the streaming session: connection lifecycle, control messages and capture
Next ==
    \/ Session
    \/ Transport
    \/ \E h \in Handles, data \in ControlMessages : OnMessage(h, data)
    \/ Capture

Spec == Init /\ [][Next]_vars

\* the connection alone: logins and token refreshes, logouts, transport
\* events and reconnection timers
NextConnect ==
    \/ \E t \in Tokens : SetToken(t)
    \/ ClearAuthData
    \/ LogoutClick
    \/ Transport

SpecConnect == Init /\ [][NextConnect]_vars

\* the balance gate: a session that connects, fails, is closed and is logged
\* out, with a profile that loads, a transcript that grows and the start and
\* stop buttons; reconnection timers and audio chunks are left out
NextGate ==
    \/ SetToken(LoginToken)
    \/ ClearAuthData
    \/ LogoutClick
    \/ \E h \in Handles : OnOpen(h)
    \/ \E h \in Handles, outcome \in FetchOutcomes : OnOpenResume(h, outcome)
    \/ \E h \in Handles, code \in ServerCodes : OnCloseByServer(h, code)
    \/ \E h \in Handles : OnCloseClean(h)
    \/ \E h \in Handles : OnError(h)
    \/ \E h \in Handles : OnCloseFailed(h)
    \/ \E h \in Handles, data \in TranscriptMessages : OnMessage(h, data)
    \/ \E b \in 0..MaxBalance : ProfileLoaded(b)
    \/ startRecording
    \/ MicrophoneGranted
    \/ MicrophoneDenied
    \/ stopRecording

SpecGate == Init /\ [][NextGate]_vars

\* texts of the dispatch scenarios: a segment and a revision that extends it
Segments == {"a", "ab"}

\* the inbound frames of the dispatch scenarios
Dispatched ==
    [type : {"transcription", "immediate", "minutes"}, text : Segments]
    \cup ControlMessages

\* message dispatch: one login, the transport events of a session the
\* client never closes, its reconnection timers, and every kind of inbound
\* frame
NextText ==
    \/ SetToken(LoginToken)
    \/ \E h \in Handles : OnOpen(h)
    \/ \E h \in Handles, outcome \in FetchOutcomes : OnOpenResume(h, outcome)
    \/ \E h \in Handles, code \in ServerCodes : OnCloseByServer(h, code)
    \/ \E h \in Handles : OnError(h)
    \/ \E h \in Handles : OnCloseFailed(h)
    \/ \E h \in Handles : ReconnectTimer(h)
    \/ \E h \in Handles, data \in Dispatched : OnMessage(h, data)

SpecText == Init /\ [][NextText]_vars

\* the connection under one login token, with what the runtime guarantees:
\* an armed timer fires, a pending fetchAuthSession() settles, and the close
\* event of a failed connection follows its error event
NextLive ==
    \/ SetToken(LoginToken)
    \/ ClearAuthData
    \/ LogoutClick
    \/ Transport

Fairness ==
    \A h \in 1..MaxHandles :
        /\ WF_vars(h \in Handles /\ ReconnectTimer(h))
        /\ WF_vars(h \in Handles
                      /\ \E outcome \in FetchOutcomes : OnOpenResume(h, outcome))
        /\ WF_vars(h \in Handles /\ OnCloseFailed(h))

SpecLive == Init /\ [][NextLive]_vars /\ Fairness

\* the capture pipeline of a logged-in, connecting session: clicks on the
\* start button, also while a start is still waiting for the microphone,
\* the stop button, the logout button and the chunks of the worklet
NextCapture ==
    \/ Session
    \/ \E h \in Handles : OnOpen(h)
    \/ \E h \in Handles, outcome \in FetchOutcomes : OnOpenResume(h, outcome)
    \/ \E h \in Handles : OnCloseClean(h)
    \/ Capture
    \/ startRecordingAgain
    \/ MicrophoneGrantedAgain
    \/ MicrophoneDeniedAgain

SpecCapture == Init /\ [][NextCapture]_vars

\* what the backend sends to a session that is transcribing: segments, a
\* summary and the authentication failure
WorkMessages ==
    {[type |-> "transcription", text |-> "a"],
     [type |-> "minutes", text |-> "m1"],
     [type |-> "error", message |-> AuthFailureMessage]}

\* the page: views that mount, are unmounted with the session still open and
\* mount again, logout and login, and the events of the handles of the
\* current view and of earlier views
NextPage ==
    \/ Mount(LoginToken)
    \/ LogoutClick
    \/ SignedOut
    \/ \E h \in Handles : OnOpen(h)
    \/ \E h \in Handles \ detached, outcome \in {LoginToken, Rejected} :
           OnOpenResume(h, outcome)
    \/ \E h \in Handles \ detached, code \in ServerCodes :
           OnCloseByServer(h, code)
    \/ \E h \in Handles \ detached : OnCloseClean(h)
    \/ \E h \in Handles \ detached : OnError(h)
    \/ \E h \in Handles \ detached : OnCloseFailed(h)
    \/ \E h \in Handles \ detached : ReconnectTimer(h)
    \/ \E h \in Handles \ detached, data \in WorkMessages : OnMessage(h, data)
    \/ \E h \in Handles, outcome \in {LoginToken, Rejected} :
           DetachedOnOpenResume(h, outcome)
    \/ \E h \in Handles, code \in ServerCodes : DetachedOnCloseByServer(h, code)
    \/ \E h \in Handles : DetachedOnCloseClean(h)
    \/ \E h \in Handles : DetachedOnError(h)
    \/ \E h \in Handles : DetachedOnCloseFailed(h)
    \/ \E h \in Handles : DetachedReconnectTimer(h)

SpecPage == Init /\ [][NextPage]_vars

\* what the runtime guarantees to happen: a pending fetch settles, the close
\* event follows the error event, an armed timer fires
PageFairness ==
    \A h \in 1..MaxHandles :
        /\ WF_vars(h \in Handles \ detached
                      /\ \E outcome \in {LoginToken, Rejected} :
                             OnOpenResume(h, outcome))
        /\ WF_vars(h \in Handles
                      /\ \E outcome \in {LoginToken, Rejected} :
                             DetachedOnOpenResume(h, outcome))
        /\ WF_vars(h \in Handles \ detached /\ OnCloseFailed(h))
        /\ WF_vars(h \in Handles /\ DetachedOnCloseFailed(h))
        /\ WF_vars(h \in Handles \ detached /\ ReconnectTimer(h))
        /\ WF_vars(h \in Handles /\ DetachedReconnectTimer(h))
        /\ WF_vars(h \in Handles /\ OnOpen(h))

SpecPageLive == SpecPage /\ PageFairness

\* the worklet and the conversion: input blocks of every length up to
\* MaxBlock, of every sample value, and the chunks taken from the port
NextAudio ==
    \/ \E n \in 0..MaxBlock : \E channelData \in [1..n -> Samples] :
           process(channelData)
    \/ EncodeChunk

SpecAudio == Init /\ [][NextAudio]_vars

\* summary generation: a logged-in session whose transcript grows, the
\* profile loads of the token effect, and the summary button
NextMinutes ==
    \/ SetToken(LoginToken)
    \/ ClearAuthData
    \/ \E h \in Handles : OnOpen(h)
    \/ \E h \in Handles, outcome \in FetchOutcomes : OnOpenResume(h, outcome)
    \/ \E h \in Handles : OnCloseClean(h)
    \/ \E h \in Handles, data \in TranscriptMessages : OnMessage(h, data)
    \/ \E b \in 0..MaxBalance : ProfileLoaded(b)
    \/ generateMinutes
    \/ GenerateMinutesFailed
    \/ \E text \in Summaries : GenerateMinutesOk(text)
    \/ \E b \in 0..MaxBalance : RefreshDone(b)
    \/ RefreshFailed

SpecMinutes == Init /\ [][NextMinutes]_vars

\* summary generation with what the runtime guarantees: the profile fetch
\* that generateMinutes awaits settles
SpecMinutesLive ==
    /\ SpecMinutes
    /\ WF_vars((\E b \in 0..MaxBalance : RefreshDone(b)) \/ RefreshFailed)

\* everything around the balance: profile loads, the purchase button,
\* capture with its audio chunks, inbound messages and the connection events
\* of one login, up to the click on the logout button
NextBalance ==
    \/ SetToken(LoginToken)
    \/ LogoutClick
    \/ \E h \in Handles : OnOpen(h)
    \/ \E h \in Handles, outcome \in {LoginToken, Rejected} :
          OnOpenResume(h, outcome)
    \/ \E h \in Handles, code \in ServerCodes : OnCloseByServer(h, code)
    \/ \E h \in Handles : OnCloseClean(h)
    \/ \E h \in Handles : OnError(h)
    \/ \E h \in Handles : OnCloseFailed(h)
    \/ \E h \in Handles, data \in ControlMessages : OnMessage(h, data)
    \/ \E b \in 0..MaxBalance : ProfileLoaded(b)
    \/ \E outcome \in CheckoutOutcomes : handleBuyCredits(outcome)
    \/ Capture

SpecBalance == Init /\ [][NextBalance]_vars

(* ========================= checked properties ========================== *)
\* the close event of handle h with close code code is dispatched in this step
CloseEvent(h, code) ==
    \/ code \in ServerCodes /\ OnCloseByServer(h, code)
    \/ sockets[h].pendCode = code /\ OnCloseClean(h)
    \/ code = AbnormalClosure /\ OnCloseFailed(h)

CloseCodes == ServerCodes \cup {NoStatusRcvd, AbnormalClosure}

LiveHandles == {h \in Handles : sockets[h].readyState \in {CONNECTING, OPEN}}

C2_AuthBeforeAudio ==
    \A h \in Handles :
        sockets[h].sent # <<>> => Head(sockets[h].sent).type = "auth"

\* C3 (as claimed): an audio frame is transmitted only in a state where
\* connectionStatus is "connected"; in any other state the chunk is dropped.
C3_FramesOnlyWhenConnected ==
    [][FramesSent' > FramesSent => connectionStatus = "connected"]_vars

\* C4: at most one handle is connecting or open at any time, and a call of
\* connectWebSocket (from the token effect or a reconnection timer) while the
\* current handle is connecting or open creates no handle and leaves the
\* handle, connectionStatus and isExplicitlyClosing unchanged.
C4_SingleLiveHandle ==
    /\ [](Cardinality(LiveHandles) <= 1)
    /\ [][\A h \in Handles :
             (ReconnectTimer(h) \/ \E t \in Tokens : SetToken(t))
                /\ AlreadyConnecting(sockets)
                => /\ Len(sockets') = Len(sockets)
                   /\ \A k \in Handles :
                         sockets'[k].readyState = sockets[k].readyState
                   /\ UNCHANGED <<globalWebSocket, connectionStatus,
                                  isExplicitlyClosing>>]_vars

\* C4 witness: the view token was replaced while the handle created under
\* the previous token was open; the connect call of the token effect returned
\* early and that handle is still the only one.
C4_Witness ==
    /\ Len(sockets) = 1
    /\ globalWebSocket = 1
    /\ sockets[1].readyState = OPEN
    /\ token # None
    /\ sockets[1].token # token

\* C5 (as claimed): getUserMedia is requested only in a state where the
\* balance is loaded and greater than 0 and connectionStatus is "connected".
C5_MicOnlyWithKnownPositiveBalance ==
    [][startPc = "idle" /\ startPc' = "getUserMedia" =>
          /\ connectionStatus = "connected"
          /\ balance # NullBalance
          /\ balance[1] > 0]_vars

\* C5 (amended): getUserMedia is requested only in a state where
\* connectionStatus is "connected" and the balance is not known to be 0 or
\* less (it is greater than 0, or not loaded yet); a click of the start button
\* in a state with a loaded balance of 0 or less requests nothing.
C5_MicOnlyWhenNotKnownEmpty ==
    [][/\ startPc = "idle" /\ startPc' = "getUserMedia" =>
             /\ connectionStatus = "connected"
             /\ balance = NullBalance \/ balance[1] > 0
       /\ startRecording =>
             ((startPc' = "getUserMedia")
                <=> (balance = NullBalance \/ balance[1] > 0))]_vars

\* C5 witness: getUserMedia has been requested while the balance was still
\* not loaded.
C5_Witness ==
    /\ startPc = "getUserMedia"
    /\ balance = NullBalance
    /\ connectionStatus = "connected"

\* C6: a click of the start button with balance = 0 raises the
\* insufficient-balance notification, requests no microphone access and leaves
\* the recording flag, the handle, connectionStatus, the sockets, the balance
\* and the transcript unchanged.
C6_ZeroBalanceRejected ==
    [][startRecording /\ balance = <<0>> =>
          /\ toast' = "insufficient-balance"
          /\ startPc' = "idle"
          /\ UNCHANGED <<isRecording, capturing, globalWebSocket,
                         connectionStatus, isExplicitlyClosing, sockets,
                         balance, allTranscript, immediate, minutes>>]_vars

\* C6 witness: the start button was clicked with balance 0 while connected
\* and with a transcript present; the click was rejected.
C6_Witness ==
    /\ toast = "insufficient-balance"
    /\ balance = <<0>>
    /\ connectionStatus = "connected"
    /\ allTranscript # <<>>
    /\ ~isRecording
    /\ startPc = "idle"

\* C7 (as claimed): once an explicit close has run (isExplicitlyClosing is
\* true), a reconnection timer that fires creates no connection handle.
C7_NoReconnectAfterExplicitClose ==
    [][\A h \in Handles :
          isExplicitlyClosing /\ ReconnectTimer(h)
             => Len(sockets') = Len(sockets)]_vars

\* C8 (as claimed): a connect call made while the view holds no credential,
\* here from a reconnection timer, creates no handle, does not set
\* connectionStatus to "connecting" and does not reset isExplicitlyClosing.
C8_NoCredentialNoConnect ==
    [][\A h \in Handles :
          token = None /\ ReconnectTimer(h)
             => /\ Len(sockets') = Len(sockets)
                /\ UNCHANGED <<globalWebSocket, connectionStatus,
                               isExplicitlyClosing>>]_vars

C10_AuthFailureMessageIsTerminal ==
    [][\A h \in Handles, code \in ServerCodes :
          toast = "auth-failed" /\ OnCloseByServer(h, code)
             => sockets'[h].timer # "armed"]_vars

\* the outbound log holds an authentication message
HasAuthMessage(log) == \E i \in 1..Len(log) : log[i].type = "auth"

\* C11 (as claimed): when the continuation of onopen of a handle sets
\* connectionStatus to "connected", an authentication message has been sent
\* on that handle.
C11_ConnectedOnlyAfterAuth ==
    [][\A h \in Handles :
          /\ sockets[h].awaiting
          /\ ~sockets'[h].awaiting
          /\ connectionStatus' = "connected"
          => HasAuthMessage(sockets'[h].sent)]_vars

\* C12: every authentication message put on a handle is sent by a continuation
\* of onopen, and a continuation that resumes with the token t returned by
\* fetchAuthSession() and finds the current handle open sends exactly t on it,
\* whatever token the closure that created the handle captured and whatever
\* token the view holds.
C12_AuthCarriesFetchedToken ==
    [][/\ \A h \in Handles :
             /\ Len(sockets'[h].sent) > Len(sockets[h].sent)
             /\ sockets'[h].sent[Len(sockets'[h].sent)].type = "auth"
             => \E k \in Handles, outcome \in Tokens : OnOpenResume(k, outcome)
       /\ \A k \in Handles, outcome \in Tokens :
             /\ OnOpenResume(k, outcome)
             /\ globalWebSocket # 0
             /\ sockets[globalWebSocket].readyState = OPEN
             => LET log == sockets'[globalWebSocket].sent
                IN /\ Len(log) = Len(sockets[globalWebSocket].sent) + 1
                   /\ log[Len(log)] = AuthMessage(outcome)]_vars

\* C12 witness: two handles created by closures holding the same token; the
\* first authenticated with that token, the second, opened after a rotation,
\* with a token the closure never held.
C12_Witness ==
    \E h, k \in Handles :
        /\ h < k
        /\ sockets[h].token = sockets[k].token
        /\ sockets[h].sent = <<AuthMessage(sockets[h].token)>>
        /\ sockets[k].sent # <<>>
        /\ sockets[k].sent[1].type = "auth"
        /\ sockets[k].sent[1].token # sockets[k].token

\* C13 (as claimed): the close event of a handle the client closed itself
\* (close() called after isExplicitlyClosing was set) leaves connectionStatus
\* unchanged, raises no notification and arms no reconnection timer, also
\* when connectWebSocket has run again before the event is delivered.
C13_ExplicitCloseEventIsInert ==
    [][\A h \in Handles :
          OnCloseClean(h) =>
             /\ connectionStatus' = connectionStatus
             /\ toast' = None
             /\ sockets'[h].timer = "none"]_vars

\* C14: a step in which the client starts closing a handle leaves
\* isExplicitlyClosing true, so the flag is set before the close event can be
\* dispatched; every disconnect (token effect without token, logout button)
\* ends with no handle and the flag true, changes no socket other than the
\* current one and nothing of a current one that is already closing or closed;
\* and a disconnect with no handle changes neither flag nor sockets.
C14_DisconnectSetsFlagAndIsIdempotent ==
    [][/\ \A h \in Handles :
             /\ sockets[h].readyState \in {CONNECTING, OPEN}
             /\ sockets'[h].readyState = CLOSING
             => isExplicitlyClosing'
       /\ (LogoutClick \/ ClearAuthData) =>
             /\ globalWebSocket' = 0
             /\ isExplicitlyClosing'
             /\ Len(sockets') = Len(sockets)
             /\ \A h \in Handles :
                   h # globalWebSocket \/ sockets[h].readyState \in {CLOSING, CLOSED}
                   => sockets'[h] = sockets[h]
             /\ globalWebSocket = 0 =>
                   UNCHANGED <<sockets, isExplicitlyClosing, globalWebSocket>>]_vars

\* C14 witness: the logout button closed the handle (close() without a code)
\* and the token effect then ran without token and without handle.
C14_Witness ==
    /\ token = None
    /\ globalWebSocket = 0
    /\ isExplicitlyClosing
    /\ \E h \in Handles :
          /\ sockets[h].readyState = CLOSING
          /\ sockets[h].pendCode = NoStatusRcvd

\* the frames of the dispatch scenarios with the given type
OfType(ty) == {data \in Dispatched : HasType(data, ty)}

\* C15: each {type: "transcription", text} message sets allTranscript to the
\* previous value followed by one space and the text and leaves immediate and
\* minutes unchanged; nothing else changes allTranscript, so it is always the
\* arrived segments in order, each preceded by a space.
C15_TranscriptionAppends ==
    /\ [][\A h \in Handles, data \in OfType("transcription") :
             OnMessage(h, data) =>
                /\ allTranscript' = allTranscript \o <<" ">> \o <<data.text>>
                /\ UNCHANGED <<immediate, minutes>>]_vars
    /\ [][allTranscript' # allTranscript =>
             \E h \in Handles, data \in OfType("transcription") :
                OnMessage(h, data)]_vars
    /\ [](\A i \in 1..Len(allTranscript) :
             IF i % 2 = 1 THEN allTranscript[i] = " "
             ELSE allTranscript[i] \in Segments)

\* C15 witness: "ab" arrived, then "a", after an immediate text was shown.
C15_Witness ==
    /\ allTranscript = <<" ", "ab", " ", "a">>
    /\ immediate = "a"
    /\ minutes = ""

\* C16: each {type: "immediate", text} message sets immediate to exactly the
\* text and leaves allTranscript and minutes unchanged; nothing else changes
\* immediate, so it always equals the text of the last immediate message.
C16_ImmediateReplaces ==
    /\ [][\A h \in Handles, data \in OfType("immediate") :
             OnMessage(h, data) =>
                /\ immediate' = data.text
                /\ UNCHANGED <<allTranscript, minutes>>]_vars
    /\ [][immediate' # immediate =>
             \E h \in Handles, data \in OfType("immediate") :
                OnMessage(h, data)]_vars
    /\ [](immediate \in Segments \cup {""})

\* C16 witness: the immediate text is the revision "ab" while the transcript
\* holds the segment "a" alone.
C16_Witness ==
    /\ immediate = "ab"
    /\ allTranscript = <<" ", "a">>

\* inbound frames that do not parse or carry no type the dispatch knows
Malformed ==
    {data \in Dispatched :
        IF "type" \in DOMAIN data
        THEN data.type \notin {"transcription", "immediate", "minutes", "error"}
        ELSE TRUE}

\* what onmessage must leave alone when it drops a frame
DroppedFrame ==
    /\ toast' = None
    /\ UNCHANGED <<allTranscript, immediate, minutes, connectionStatus,
                   globalWebSocket, isExplicitlyClosing, sockets, token, task,
                   viewVars>>

C19_StopReleasesEverything ==
    [][stopRecording \/ (LogoutClick /\ isRecording) =>
          /\ ~isRecording'
          /\ ~capturing'
          /\ ~orphaned']_vars

\* C20: when generateMinutes fails, the error notification is raised, minutes,
\* allTranscript and balance stay as they were, and no profile fetch is
\* started; the call is over. Nothing else ends a pending request without
\* writing minutes.
C20_FailureLeavesOutputs ==
    /\ [][GenerateMinutesFailed =>
             /\ toast' = "minutes-error"
             /\ UNCHANGED <<minutes, allTranscript, immediate, balance>>
             /\ minutesPc' = "idle"]_vars
    /\ [][minutesPc = "fetch" /\ minutesPc' # "fetch" =>
             \/ GenerateMinutesFailed
             \/ \E text \in Summaries : GenerateMinutesOk(text)]_vars
    /\ [][minutesPc # "fetchProfile" /\ minutesPc' = "fetchProfile" =>
             \E text \in Summaries : GenerateMinutesOk(text)]_vars

\* C20 witness: a summary request failed after an earlier one had
\* succeeded; the earlier summary, the transcript and the balance are there.
C20_Witness ==
    /\ toast = "minutes-error"
    /\ minutesPc = "idle"
    /\ minutes \in Summaries
    /\ allTranscript # <<>>
    /\ balance # NullBalance

\* C21: a successful generateMinutes sets minutes to the returned summary and
\* starts the profile fetch without reporting success; the success
\* notification is raised only by the step in which that profile fetch
\* settles; and a pending profile fetch leads to the success notification.
C21_SuccessRefreshesBeforeReporting ==
    /\ [][\A text \in Summaries :
             GenerateMinutesOk(text) =>
                /\ minutes' = text
                /\ minutesPc' = "fetchProfile"
                /\ toast' # "minutes-success"]_vars
    /\ [][toast' = "minutes-success" /\ minutesPc' # minutesPc =>
             /\ minutesPc = "fetchProfile"
             /\ (\E b \in 0..MaxBalance : RefreshDone(b)) \/ RefreshFailed]_vars
    /\ (minutesPc = "fetchProfile") ~> (toast = "minutes-success")

\* C21 witness: the second summary was returned and shown, the profile fetch
\* that followed loaded a balance of 0, and success was reported.
C21_Witness ==
    /\ toast = "minutes-success"
    /\ minutesPc = "idle"
    /\ minutes = "m2"
    /\ balance = <<0>>

\* C22: a request to the generate_minutes endpoint is submitted only in a
\* state where allTranscript is not empty.
C22_NoSummaryOfEmptyTranscript ==
    [][minutesPc # "fetch" /\ minutesPc' = "fetch" => allTranscript # <<>>]_vars

\* C22 witness: a summary request is in flight for a transcript of one
\* segment, before any summary was shown.
C22_Witness ==
    /\ minutesPc = "fetch"
    /\ Len(allTranscript) = 2
    /\ minutes = ""

\* C23: balance changes only in a step in which a profile fetch completes
\* (the fetch of the token effect or refresh button, or the one
\* generateMinutes awaits); the purchase flow, capture, audio chunks, inbound
\* messages and connection events leave it unchanged.
C23_BalanceOnlyByRefresh ==
    [][/\ balance' # balance =>
             \E b \in 0..MaxBalance : ProfileLoaded(b) \/ RefreshDone(b)
       /\ (\/ \E outcome \in CheckoutOutcomes : handleBuyCredits(outcome)
           \/ Capture
           \/ Transport
           \/ Session
           \/ \E h \in Handles, data \in ControlMessages : OnMessage(h, data))
          => balance' = balance]_vars

\* C23 witness: with a loaded balance of 1 a recording runs, a frame has
\* been sent and a checkout request has just ended without a url.
C23_Witness ==
    /\ balance = <<1>>
    /\ isRecording
    /\ FramesSent > 0
    /\ toast = "checkout-error"

(* ----------------------------------------------------------------------- *)
\* C24: the conversion clamps to [-1, 1] before scaling: 1.0 and everything
\* above it encode to 32767, -1.0 and everything below it encode to -32768,
\* and no sample changes sign or wraps around the 16-bit range
C24_ClampsBothEnds ==
    delivered > 0 =>
        \A i \in 1..bufferSize :
            LET s == posted[delivered][i]
                e == encoded[i]
            IN  /\ s >= One => e = 32767
                /\ s <= -One => e = -32768
                /\ s > 0 => e > 0
                /\ s < 0 => e < 0

\* C27: every posted chunk has bufferSize samples, the chunks followed by the
\* samples waiting in the buffer are exactly the input stream, a chunk is
\* posted each time bufferSize samples have accumulated, and bufferIndex is
\* in 0..bufferSize-1 between calls of process()
C27_ChunksPartitionTheStream ==
    /\ bufferIndex \in 0..(bufferSize - 1)
    /\ \A i \in 1..Len(posted) : Len(posted[i]) = bufferSize
    /\ Len(posted) = Len(stream) \div bufferSize
    /\ \A k \in 1..Len(stream) :
           LET c == (k - 1) \div bufferSize
               o == ((k - 1) % bufferSize) + 1
           IN  IF c < Len(posted)
               THEN posted[c + 1][o] = stream[k]
               ELSE o <= bufferIndex /\ buffer[o] = stream[k]

\* two chunks posted out of blocks that do not line up with the chunk size,
\* and a sample waiting in the buffer
C27_Witness ==
    /\ Len(posted) = 2
    /\ posted[1] # posted[2]
    /\ bufferIndex = 1

(* ----------------------------------------------------------------------- *)
\* C26: connectionStatus changes along the specified edges only, so never
\* from "disconnected" or "error" straight to "connected" and never from
\* "connected" straight to "connecting"
C26_SpecifiedEdgesOnly ==
    [][connectionStatus' # connectionStatus
          => <<connectionStatus, connectionStatus'>> \in
                {<<"disconnected", "connecting">>,
                 <<"connecting", "connected">>,
                 <<"connected", "disconnected">>, <<"connected", "error">>,
                 <<"connecting", "error">>, <<"error", "connecting">>}]_vars

\* C28: whenever connectionStatus is "connected" a current handle exists and
\* its transport is open
C28_ConnectedMeansOpenHandle ==
    connectionStatus = "connected" =>
        /\ globalWebSocket # 0
        /\ sockets[globalWebSocket].readyState = OPEN

\* C29: once a newer handle is the current one, an open continuation, an
\* error event or a close event of an earlier handle leaves connectionStatus
\* alone, sends nothing on the current handle and arms no reconnection timer
LateEvent(h) ==
    \/ \E outcome \in FetchOutcomes : OnOpenResume(h, outcome)
    \/ OnError(h)
    \/ OnCloseFailed(h)
    \/ OnCloseClean(h)
    \/ \E code \in ServerCodes : OnCloseByServer(h, code)

C29_SupersededHandleIsInert ==
    [][\A h \in Handles :
          (globalWebSocket # 0 /\ h < globalWebSocket /\ LateEvent(h)) =>
              /\ connectionStatus' = connectionStatus
              /\ sockets'[globalWebSocket].sent = sockets[globalWebSocket].sent
              /\ sockets'[h].timer = sockets[h].timer]_vars

(* ----------------------------------------------------------------------- *)
\* C25: a transcript and a summary that exist when an authentication failure
\* is reported (close code 4001 or the authentication-failure message) are
\* never lost afterwards, re-authentication included
AuthFailureReported ==
    /\ token # None
    /\ toast \in {"auth-closed", "auth-failed"}

C25_WorkSurvivesAuthFailure ==
    /\ [](AuthFailureReported /\ allTranscript # <<>>
            => [](allTranscript # <<>>))
    /\ [](AuthFailureReported /\ minutes # "" => [](minutes # ""))

\* C30: a view that mounts while the handle is open sees "connected" in the
\* end, unless the handle closes first
RemountedOnOpenHandle ==
    /\ token # None
    /\ globalWebSocket \in detached
    /\ sockets[globalWebSocket].readyState = OPEN
    /\ ~sockets[globalWebSocket].awaiting

C30_RemountedViewConnects ==
    RemountedOnOpenHandle ~>
        \/ connectionStatus = "connected"
        \/ ~RemountedOnOpenHandle

====
